---- MODULE Spec2Model ----
(***************************************************************************)
(* The login route of app/routes/login.tsx: the loader (GET), the action   *)
(* (POST) and the LoginPage component's focus effect, as one state         *)
(* machine.  The server handles one request at a time; the action is split *)
(* at its three await points.  The collaborators imported from             *)
(* ~/session.server, ~/models/user.server and ~/utils are modelled by      *)
(* their interfaces.                                                       *)
(***************************************************************************)
EXTENDS Integers, Sequences, FiniteSets, TLC

VARIABLES
  emailPattern,   \* the strings validateEmail accepts (fixed per behaviour)
  users,          \* the user store verifyLogin consults (fixed per behaviour)
  pc,             \* position of the request being handled / of the page
  request,        \* the request in flight
  fields,         \* the action's locals email, password, redirectTo, remember
  user,           \* the action's local `user`
  calls,          \* the collaborators called by the current invocation, in order
  sessionArgs,    \* the argument object passed to createUserSession
  response,       \* the handler's response
  page,           \* which page the browser shows
  actionData,     \* useActionData() of the mounted LoginPage
  focused,        \* the element that has the focus
  observed        \* the responses seen so far to rejected credentials

vars == <<emailPattern, users, pc, request, fields, user, calls, sessionArgs,
          response, page, actionData, focused, observed>>

(***************************************************************************)
(* Bounds and program constants                                            *)
(***************************************************************************)
MaxPasswordLen == 9

MinPasswordLength == 8

(***************************************************************************)
(* Values                                                                  *)
(***************************************************************************)
NULL == [kind |-> "null"]

UNDEFINED == [kind |-> "undefined"]

\* a File entry of a multipart form: the non-string FormDataEntryValue
FILE == [kind |-> "file"]

Str(s) == [kind |-> "string", val |-> s]

\* the truthiness of a value that is null, undefined or a string
Truthy(v) == v # NULL /\ v # UNDEFINED /\ v # Str("")

\* typeof v === "string"
IsString(v) == v.kind = "string"

RECURSIVE Rep(_)
Rep(n) == IF n = 0 THEN "" ELSE "p" \o Rep(n - 1)

EmailStrings == {"nobody", "a@b.c"}

\* password strings around the length check: empty, one short of the
\* minimum, the minimum and everything up to the bound
PasswordStrings == {Rep(n) : n \in {0} \cup ((MinPasswordLength - 1)..MaxPasswordLen)}

RedirectStrings == {"", "/x"}

RememberStrings == {"", "on", "ON", "true"}

FieldNames == {"email", "password", "redirectTo", "remember"}

FieldStrings(name) ==
  CASE name = "email" -> EmailStrings
    [] name = "password" -> PasswordStrings
    [] name = "redirectTo" -> RedirectStrings
    [] name = "remember" -> RememberStrings

\* the entries a form may hold for a field: a File or a string
Entries(name) == {FILE} \cup {Str(s) : s \in FieldStrings(name)}

\* a submitted form: any subset of the fields, each with one entry
Forms ==
  UNION {{f \in [present -> UNION {Entries(n) : n \in present}] :
            \A n \in present : f[n] \in Entries(n)}
         : present \in SUBSET FieldNames}

\* formData.get(name): the entry, or null when the form has none
FormDataGet(form, name) == IF name \in DOMAIN form THEN form[name] ELSE NULL

\* the accounts a store may hold; "nobody" never has one
Accounts == {[id |-> "u1", email |-> "a@b.c", password |-> Rep(MinPasswordLength)]}

UserIds == {a.id : a \in Accounts}

\* the stores the model ranges over
UserStores == SUBSET Accounts

EmptyObject == [k \in {} |-> k]

\* json(data, { status })
json(data, status) == [kind |-> "json", status |-> status, body |-> data]

\* redirect(url)
redirect(url) == [kind |-> "redirect", status |-> 302, location |-> url, session |-> NULL]

Errors(field, message) == "errors" :> (field :> message)

(***************************************************************************)
(* Collaborators                                                           *)
(***************************************************************************)
\* validateEmail(value): a string that matches the pattern
validateEmail(email) == IsString(email) /\ email.val \in emailPattern

\* verifyLogin(email, password): the user with these credentials, or null
verifyLogin(email, password) ==
  IF \E u \in users : u.email = email.val /\ u.password = password.val
  THEN CHOOSE u \in users : u.email = email.val /\ u.password = password.val
  ELSE NULL

\* getUserId(request): the user id of the request's session, or null
getUserId(req) == req.cookie

\* createUserSession({request, userId, remember, redirectTo}): a redirect to
\* redirectTo that sets the session cookie
createUserSession(args) ==
  [kind |-> "redirect", status |-> 302, location |-> args.redirectTo,
   session |-> [userId |-> args.userId, remember |-> args.remember]]

(***************************************************************************)
(* loader                                                                  *)
(***************************************************************************)
\* a mutant of LoaderResponse: the guard is lost and the form always renders
LoaderResponse_NoGuard(userId) == json(EmptyObject, 200)

\* if (userId) return redirect("/"); return json({});
LoaderResponse(userId) ==
  IF Truthy(userId) THEN redirect("/") ELSE json(EmptyObject, 200)

(***************************************************************************)
(* action                                                                  *)
(***************************************************************************)
\* a mutant of EmailInvalid: the { status: 400 } option is forgotten
EmailInvalid_NoStatus == json(Errors("email", "Email is invalid"), 200)

EmailInvalid == json(Errors("email", "Email is invalid"), 400)

PasswordRequired == json(Errors("password", "Password is required"), 400)

PasswordTooShort == json(Errors("password", "Password is too short"), 400)

\* a mutant of InvalidCredentials: the message tells whether the account exists
InvalidCredentials_Leaky ==
  IF \E u \in users : u.email = fields.email.val
  THEN json(Errors("password", "Password is incorrect"), 400)
  ELSE json(Errors("email", "No user with that email"), 400)

InvalidCredentials == json(Errors("email", "Invalid email or password"), 400)

\* a mutant of Validate: the password is checked before the email
Validate_PasswordFirst(email, password) ==
  IF ~IsString(password) THEN PasswordRequired
  ELSE IF Len(password.val) < MinPasswordLength THEN PasswordTooShort
  ELSE IF ~validateEmail(email) THEN EmailInvalid
  ELSE NULL

\* a mutant of Validate: the length check is off by one
Validate_OffByOne(email, password) ==
  IF ~validateEmail(email) THEN EmailInvalid
  ELSE IF ~IsString(password) THEN PasswordRequired
  ELSE IF Len(password.val) < MinPasswordLength - 1 THEN PasswordTooShort
  ELSE NULL

\* a mutant of Validate: the length check is missing
Validate_NoLengthCheck(email, password) ==
  IF ~validateEmail(email) THEN EmailInvalid
  ELSE IF ~IsString(password) THEN PasswordRequired
  ELSE NULL

\* the three field checks, in order; NULL when all pass
Validate(email, password) ==
  IF ~validateEmail(email) THEN EmailInvalid
  ELSE IF ~IsString(password) THEN PasswordRequired
  ELSE IF Len(password.val) < MinPasswordLength THEN PasswordTooShort
  ELSE NULL

\* a mutant of RememberFlag: any non-empty value counts (remember ? true : false)
RememberFlag_Truthy(remember) == Truthy(remember)

\* remember === "on" ? true : false
RememberFlag(remember) == remember = Str("on")

\* a mutant of RedirectTarget: the default replaces every falsy value
\* (redirectTo || "/notes")
RedirectTarget_OrDefault(redirectTo) ==
  IF IsString(redirectTo) /\ redirectTo.val # "" THEN redirectTo.val ELSE "/notes"

\* typeof redirectTo === "string" ? redirectTo : "/notes"
RedirectTarget(redirectTo) ==
  IF IsString(redirectTo) THEN redirectTo.val ELSE "/notes"

NoFields == [n \in FieldNames |-> NULL]

NoRequest == [method |-> "NONE", cookie |-> NULL, form |-> EmptyObject]

NoSessionArgs == [userId |-> "", remember |-> FALSE, redirectTo |-> ""]

\* whether the store holds an account for the email
AccountExists(email) == \E u \in users : u.email = email.val

(***************************************************************************)
(* LoginPage                                                               *)
(***************************************************************************)
\* actionData?.errors?.[field], as a condition
HasError(data, field) ==
  /\ data # UNDEFINED
  /\ "errors" \in DOMAIN data
  /\ field \in DOMAIN data["errors"]
  /\ data["errors"][field] # ""

\* a mutant of FocusEffect: the else-if branch is missing
FocusEffect_NoPassword(data, focus) ==
  IF HasError(data, "email") THEN "email" ELSE focus

\* the effect of React.useEffect(..., [actionData]): the focus after it ran
FocusEffect(data, focus) ==
  IF HasError(data, "email") THEN "email"
  ELSE IF HasError(data, "password") THEN "password"
  ELSE focus

FocusTargets == {"email", "password", "remember"}

(***************************************************************************)
(* The state machine                                                       *)
(***************************************************************************)
Init ==
  /\ emailPattern \in SUBSET EmailStrings
  /\ users \in UserStores
  /\ pc = "idle"
  /\ request = NoRequest
  /\ fields = NoFields
  /\ user = NULL
  /\ calls = <<>>
  /\ sessionArgs = NoSessionArgs
  /\ response = NULL
  /\ page = "away"
  /\ actionData = UNDEFINED
  /\ focused = "none"
  /\ observed = {}

\* the browser requests the login page, with or without a session cookie
Navigate(cookie) ==
  /\ pc \in {"idle", "settled"}
  /\ request' = [method |-> "GET", cookie |-> cookie, form |-> EmptyObject]
  /\ pc' = "loader"
  /\ UNCHANGED <<emailPattern, users, fields, user, calls, sessionArgs,
                 response, page, actionData, focused, observed>>

\* loader: getUserId, then the redirect or the render response
loader ==
  /\ pc = "loader"
  /\ calls' = <<"getUserId">>
  /\ response' = LoaderResponse(getUserId(request))
  /\ pc' = "responded"
  /\ UNCHANGED <<emailPattern, users, request, fields, user, sessionArgs,
                 page, actionData, focused, observed>>

\* the mounted form is submitted
Submit(form) ==
  /\ pc \in {"idle", "settled"}
  /\ page = "login"
  /\ request' = [method |-> "POST", cookie |-> NULL, form |-> form]
  /\ pc' = "action"
  /\ UNCHANGED <<emailPattern, users, fields, user, calls, sessionArgs,
                 response, page, actionData, focused, observed>>

\* action, up to its first await: request.formData()
action_formData ==
  /\ pc = "action"
  /\ calls' = <<"formData">>
  /\ pc' = "formData"
  /\ UNCHANGED <<emailPattern, users, request, fields, user, sessionArgs,
                 response, page, actionData, focused, observed>>

\* action, from the form data to the call of verifyLogin: the four
\* formData.get and the three field checks
action_validate ==
  /\ pc = "formData"
  /\ LET email == FormDataGet(request.form, "email")
         password == FormDataGet(request.form, "password")
         redirectTo == FormDataGet(request.form, "redirectTo")
         remember == FormDataGet(request.form, "remember")
         failure == Validate(email, password)
     IN /\ fields' = [email |-> email, password |-> password,
                      redirectTo |-> redirectTo, remember |-> remember]
        /\ IF failure # NULL
           THEN /\ response' = failure
                /\ calls' = calls \o <<"validateEmail">>
                /\ pc' = "responded"
           ELSE /\ response' = response
                /\ calls' = calls \o <<"validateEmail", "verifyLogin">>
                /\ pc' = "verifyLogin"
  /\ UNCHANGED <<emailPattern, users, request, user, sessionArgs, page,
                 actionData, focused, observed>>

\* action, from verifyLogin's result to the call of createUserSession
action_verifyLogin ==
  /\ pc = "verifyLogin"
  /\ LET found == verifyLogin(fields.email, fields.password)
     IN /\ user' = found
        /\ IF found = NULL
           THEN /\ response' = InvalidCredentials
                /\ observed' = observed \cup
                     {[account |-> AccountExists(fields.email),
                       response |-> response']}
                /\ pc' = "responded"
                /\ UNCHANGED <<calls, sessionArgs>>
           ELSE /\ sessionArgs' = [userId |-> found.id,
                                   remember |-> RememberFlag(fields.remember),
                                   redirectTo |-> RedirectTarget(fields.redirectTo)]
                /\ calls' = calls \o <<"createUserSession">>
                /\ pc' = "createUserSession"
                /\ UNCHANGED <<response, observed>>
  /\ UNCHANGED <<emailPattern, users, request, fields, page, actionData, focused>>

\* action returns what createUserSession resolves to
action_createUserSession ==
  /\ pc = "createUserSession"
  /\ response' = createUserSession(sessionArgs)
  /\ pc' = "responded"
  /\ UNCHANGED <<emailPattern, users, request, fields, user, calls,
                 sessionArgs, page, actionData, focused, observed>>

\* the browser takes the response: a redirect leaves the login page; the
\* loader's render response mounts LoginPage (autoFocus on the email
\* input, no action data); the action's JSON becomes the action data
Deliver ==
  /\ pc = "responded"
  /\ IF response.kind = "redirect"
     THEN /\ page' = "away"
          /\ actionData' = UNDEFINED
          /\ focused' = "none"
          /\ pc' = "idle"
     ELSE /\ page' = "login"
          /\ actionData' = IF request.method = "POST" THEN response.body ELSE UNDEFINED
          /\ focused' = IF request.method = "POST" THEN focused ELSE "email"
          /\ pc' = "effect"
  /\ request' = NoRequest
  /\ fields' = NoFields
  /\ user' = NULL
  /\ calls' = <<>>
  /\ sessionArgs' = NoSessionArgs
  /\ response' = NULL
  /\ UNCHANGED <<emailPattern, users, observed>>

\* LoginPage's effect runs after the render that a new actionData caused
useEffect ==
  /\ pc = "effect"
  /\ focused' = FocusEffect(actionData, focused)
  /\ pc' = "settled"
  /\ UNCHANGED <<emailPattern, users, request, fields, user, calls,
                 sessionArgs, response, page, actionData, observed>>

\* the user moves the focus within the mounted page
UserFocus(target) ==
  /\ pc \in {"idle", "settled"}
  /\ page = "login"
  /\ focused # target
  /\ focused' = target
  /\ pc' = "idle"
  /\ UNCHANGED <<emailPattern, users, request, fields, user, calls,
                 sessionArgs, response, page, actionData, observed>>

Next ==
  \/ \E cookie \in {NULL} \cup {Str(id) : id \in UserIds} : Navigate(cookie)
  \/ loader
  \/ \E form \in Forms : Submit(form)
  \/ action_formData
  \/ action_validate
  \/ action_verifyLogin
  \/ action_createUserSession
  \/ Deliver
  \/ useEffect
  \/ \E target \in FocusTargets : UserFocus(target)

Spec == Init /\ [][Next]_vars

(***************************************************************************)
(* Properties                                                              *)
(***************************************************************************)
\* the entry the request in flight submitted for a field
Submitted(name) == FormDataGet(request.form, name)

\* the action has answered the request in flight
Answered == pc = "responded" /\ request.method = "POST"

\* the response is a 400 whose body is { errors: { [field]: message } } and
\* nothing else
IsFieldError(resp, field, message) ==
  /\ resp.kind = "json"
  /\ resp.status = 400
  /\ DOMAIN resp.body = {"errors"}
  /\ DOMAIN resp.body["errors"] = {field}
  /\ resp.body["errors"][field] = message

\* the submitted password is a string of at least MinPasswordLength characters
LongPassword ==
  IsString(Submitted("password")) /\ Len(Submitted("password").val) >= MinPasswordLength

\* the request in flight is a submission the store has no user for
NoSuchUser ==
  ~\E u \in users :
     u.email = Submitted("email").val /\ u.password = Submitted("password").val

\* how often a collaborator occurs in the calls of the invocation
Count(name) == Cardinality({i \in DOMAIN calls : calls[i] = name})

\* a call of `first` precedes every call of `second`
Before(first, second) ==
  \A j \in DOMAIN calls :
    calls[j] = second => \E i \in 1..(j - 1) : calls[i] = first

\* C1: a submission whose email fails validateEmail (malformed, missing or
\* not a string) is answered with status 400 and the email error "Email is
\* invalid", without a password error, whatever the other fields hold; it
\* never gets past the validation.
C1_InvalidEmailRejected ==
  (request.method = "POST" /\ ~validateEmail(Submitted("email"))) =>
    /\ pc \notin {"verifyLogin", "createUserSession"}
    /\ pc = "responded" => IsFieldError(response, "email", "Email is invalid")

C1_Witness ==
  /\ Answered
  /\ Submitted("email") = Str("nobody")
  /\ "nobody" \notin emailPattern
  /\ Submitted("password") = Str(Rep(MinPasswordLength))
  /\ Submitted("remember") = Str("on")
  /\ Submitted("redirectTo") = Str("/x")
  /\ IsFieldError(response, "email", "Email is invalid")

\* C2: a submission with a valid email and a string password of fewer than
\* 8 characters (the empty string included) is answered with status 400 and
\* the password error "Password is too short", without an email error.
C2_ShortPasswordRejected ==
  (/\ request.method = "POST"
   /\ validateEmail(Submitted("email"))
   /\ IsString(Submitted("password"))
   /\ Len(Submitted("password").val) < 8) =>
    /\ pc \notin {"verifyLogin", "createUserSession"}
    /\ pc = "responded" => IsFieldError(response, "password", "Password is too short")

C2_Witness ==
  /\ Answered
  /\ validateEmail(Submitted("email"))
  /\ Submitted("password") = Str(Rep(7))
  /\ IsFieldError(response, "password", "Password is too short")

\* C3: a submission with a valid email and a string password of at least 8
\* characters for which verifyLogin yields no user is answered with status
\* 400 and the email error "Invalid email or password", without a password
\* error.
C3_UnknownCredentialsRejected ==
  (/\ Answered
   /\ validateEmail(Submitted("email"))
   /\ LongPassword
   /\ NoSuchUser) =>
    IsFieldError(response, "email", "Invalid email or password")

C3_Witness ==
  /\ Answered
  /\ validateEmail(Submitted("email"))
  /\ LongPassword
  /\ NoSuchUser
  /\ calls = <<"formData", "validateEmail", "verifyLogin">>
  /\ response.status = 400

\* C4: for valid credentials the response is the session-creation redirect,
\* to the submitted redirectTo when that entry is a string (the empty string
\* included) and to "/notes" when it is absent or not a string.
C4_RedirectTarget ==
  (Answered /\ user # NULL) =>
    /\ response.kind = "redirect"
    /\ response.session # NULL
    /\ response.session.userId = user.id
    /\ IsString(Submitted("redirectTo")) =>
         response.location = Submitted("redirectTo").val
    /\ ~IsString(Submitted("redirectTo")) => response.location = "/notes"

C4_Witness ==
  /\ Answered
  /\ user # NULL
  /\ Submitted("redirectTo") = Str("")
  /\ response.kind = "redirect"
  /\ response.location = ""

\* C5: the loader answers a request for which getUserId yields a user id
\* with a redirect to "/" and never with the render response, and a request
\* for which it yields no user with the empty JSON render response and
\* never with a redirect.
C5_LoaderGuard ==
  (pc = "responded" /\ request.method = "GET") =>
    /\ request.cookie # NULL =>
         response.kind = "redirect" /\ response.location = "/"
    /\ request.cookie = NULL =>
         response.kind = "json" /\ response.status = 200 /\ response.body = EmptyObject

C5_Witness ==
  /\ pc = "responded"
  /\ request.method = "GET"
  /\ request.cookie \in {Str(id) : id \in UserIds}
  /\ response.kind = "redirect"

\* C6: when the action creates a session, the remember flag passed to
\* createUserSession is true exactly when the submitted remember entry is
\* the string "on"; it is false for every other entry and without one.
C6_RememberOnlyOn ==
  (request.method = "POST" /\ Count("createUserSession") > 0) =>
    /\ sessionArgs.remember = TRUE <=> Submitted("remember") = Str("on")
    /\ pc = "responded" =>
         (response.session.remember = TRUE <=> Submitted("remember") = Str("on"))

C6_Witness ==
  /\ Answered
  /\ Count("createUserSession") = 1
  /\ Submitted("remember") = Str("ON")
  /\ sessionArgs.remember = FALSE
  /\ response.session.remember = FALSE

\* C7: all submissions that pass the field validation and for which
\* verifyLogin yields no user get the same response, whether the account
\* exists (wrong password) or not: same status, same field, same message.
C7_SameRejection ==
  \A a, b \in observed : a.response = b.response

C7_Witness ==
  /\ \E a \in observed : a.account
  /\ \E b \in observed : ~b.account

\* C8: the checks run in the order email, password is a string, password
\* length, and the first failure alone is reported: with both fields
\* invalid only the email error is; a missing or non-string password with
\* a valid email yields 400 "Password is required"; a validation failure
\* carries exactly one field.
C8_FirstFailureOnly ==
  (Answered /\ Count("verifyLogin") = 0) =>
    /\ response.kind = "json" /\ response.status = 400
    /\ Cardinality(DOMAIN response.body["errors"]) = 1
    /\ (~validateEmail(Submitted("email")) /\ ~LongPassword) =>
         IsFieldError(response, "email", "Email is invalid")
    /\ (validateEmail(Submitted("email")) /\ ~IsString(Submitted("password"))) =>
         IsFieldError(response, "password", "Password is required")

C8_Witness ==
  /\ Answered
  /\ ~validateEmail(Submitted("email"))
  /\ Submitted("password") = NULL
  /\ IsFieldError(response, "email", "Email is invalid")

\* C9: the action data of the page is the body of the latest action
\* response, and the effect that follows moves the focus to the email
\* input when that body has an email error, to the password input when it
\* has a password error and no email error, and leaves the focus alone
\* when it has neither.
C9_FocusFollowsLatest ==
  [][/\ (Answered /\ response.kind = "json") =>
          (actionData' = response.body /\ pc' = "effect")
     /\ pc = "effect" =>
          /\ actionData' = actionData
          /\ HasError(actionData, "email") => focused' = "email"
          /\ (~HasError(actionData, "email") /\ HasError(actionData, "password")) =>
               focused' = "password"
          /\ (~HasError(actionData, "email") /\ ~HasError(actionData, "password")) =>
               focused' = focused]_vars

\* an earlier response had the email error of rejected credentials, the
\* latest one has a password error, and the focus is on the password input
C9_Witness ==
  /\ pc = "settled"
  /\ observed # {}
  /\ HasError(actionData, "password")
  /\ focused = "password"

\* C10: within one invocation verifyLogin is called at most once and only
\* after the three field checks passed, createUserSession at most once and
\* only after verifyLogin returned a user; a request answered with 400
\* created no session and one that fails the validation never reaches
\* verifyLogin.
C10_CallOrder ==
  request.method = "POST" =>
    /\ Count("verifyLogin") <= 1
    /\ Count("createUserSession") <= 1
    /\ Count("verifyLogin") > 0 =>
         /\ Before("validateEmail", "verifyLogin")
         /\ validateEmail(Submitted("email"))
         /\ LongPassword
    /\ Count("createUserSession") > 0 =>
         /\ Before("verifyLogin", "createUserSession")
         /\ user # NULL
         /\ ~NoSuchUser
    /\ (pc = "responded" /\ response.status = 400) => Count("createUserSession") = 0
    /\ (~validateEmail(Submitted("email")) \/ ~LongPassword) => Count("verifyLogin") = 0

C10_Witness ==
  /\ Answered
  /\ calls = <<"formData", "validateEmail", "verifyLogin", "createUserSession">>
  /\ response.kind = "redirect"

====
